---- MODULE Spec2Model ----
(***************************************************************************)
(* A model of the Website Builder Agent (src/app.py): the parser of the    *)
(* completion service's text (safe_extract_code_blocks), the template      *)
(* generator (mock_generator_from_settings), and the Streamlit script as a *)
(* state machine of script runs over the session state.                    *)
(*                                                                         *)
(* Text is a sequence of one-character strings, so that the regular        *)
(* expressions, strip(), lower(), split() and capitalize() of the source   *)
(* are computed character by character.                                    *)
(***************************************************************************)
EXTENDS Integers, Sequences, FiniteSets, TLC

--------------------------------------------------------------------------
(* State                                                                   *)

VARIABLES
  ptext,      \* parser: the text handed to safe_extract_code_blocks
  pentries,   \* parser: the (path, content) pairs ptext was rendered from, or <<>>
  pfiles,     \* parser: the mapping returned
  pdone,      \* parser: safe_extract_code_blocks has returned
  gsettings,  \* generator: the settings dict handed to mock_generator_from_settings
  gframework, \* generator: the framework handed to it
  gfiles,     \* generator: the mapping returned
  gstate,     \* generator: "ready", "returned" or "raised"
  gcalls,     \* generator: how many calls have returned
  gyear,      \* generator: datetime.now().year at the last call (0: no call yet)
  year,       \* datetime.now().year
  started,          \* the script has run once in this session
  qa_step,          \* st.session_state.qa_step
  qa_advanced,      \* st.session_state.qa_advanced
  qa_answers,       \* st.session_state.qa_answers (a dict: key -> value)
  generate_trigger, \* st.session_state.generate_trigger is set
  buttons,          \* the labels of the buttons the last run rendered
  fwWidget,         \* the framework selectbox as the browser holds it
  pagesWidget,      \* the pages text input as the browser holds it
  advWidget,        \* the radio of step 5 as the browser holds it
  featWidget,       \* the login, contact and about radios of step 6 as the browser holds them
  checkbox,         \* the three main-area checkboxes as the browser holds them
  llmWidget,        \* the "Use Groq LLM" checkbox as the browser holds it
  generations,      \* how many runs of this session ran the generation block
  last              \* what the last script run did and read

parserVars == <<ptext, pentries, pfiles, pdone>>

generatorVars == <<gsettings, gframework, gfiles, gstate, gcalls, gyear>>

sessionVars ==
  <<started, qa_step, qa_advanced, qa_answers, generate_trigger, buttons,
    fwWidget, pagesWidget, advWidget, featWidget, checkbox, llmWidget, generations, last>>

vars == <<parserVars, generatorVars, year, sessionVars>>

--------------------------------------------------------------------------
(* Characters and Python's string methods                                  *)

LowerLetters ==
  <<"a","b","c","d","e","f","g","h","i","j","k","l","m",
    "n","o","p","q","r","s","t","u","v","w","x","y","z">>

UpperLetters ==
  <<"A","B","C","D","E","F","G","H","I","J","K","L","M",
    "N","O","P","Q","R","S","T","U","V","W","X","Y","Z">>

Digits == <<"0","1","2","3","4","5","6","7","8","9">>

\* the upper-case letters mapped to lower case, and back
ToLower == [c \in {UpperLetters[i] : i \in 1..26} |->
              LowerLetters[CHOOSE i \in 1..26 : UpperLetters[i] = c]]

ToUpper == [c \in {LowerLetters[i] : i \in 1..26} |->
              UpperLetters[CHOOSE i \in 1..26 : LowerLetters[i] = c]]

\* str.lower() on one character
LowerChar(c) == IF c \in DOMAIN ToLower THEN ToLower[c] ELSE c

\* str.upper() on one character
UpperChar(c) == IF c \in DOMAIN ToUpper THEN ToUpper[c] ELSE c

\* str.lower()
Lower(s) == [i \in 1..Len(s) |-> LowerChar(s[i])]

\* the characters \s of the re module matches, and str.strip() removes
IsSpace(c) == c \in {" ", "\n", "\t", "\r"}

\* the characters \w of the re module matches
IsWord(c) ==
  \/ c \in DOMAIN ToLower
  \/ c \in DOMAIN ToUpper
  \/ c \in {Digits[i] : i \in 1..10}
  \/ c = "_"

\* s[i..j] (1-based, inclusive), empty when j < i
Slice(s, i, j) == IF j < i THEN <<>> ELSE SubSeq(s, i, j)

\* the first position >= i of s that holds no whitespace (Len(s)+1 if none)
RECURSIVE SkipSpace(_, _)
SkipSpace(s, i) ==
  IF i <= Len(s) /\ IsSpace(s[i]) THEN SkipSpace(s, i + 1) ELSE i

\* the last position <= j of s that holds no whitespace (0 if none)
RECURSIVE SkipSpaceBack(_, _)
SkipSpaceBack(s, j) ==
  IF j >= 1 /\ IsSpace(s[j]) THEN SkipSpaceBack(s, j - 1) ELSE j

\* the first position >= i of s that holds whitespace (Len(s)+1 if none)
RECURSIVE SkipToSpace(_, _)
SkipToSpace(s, i) ==
  IF i <= Len(s) /\ ~IsSpace(s[i]) THEN SkipToSpace(s, i + 1) ELSE i

\* the first position >= i of s that holds character c (Len(s)+1 if none)
RECURSIVE Find(_, _, _)
Find(s, i, c) == IF i <= Len(s) /\ s[i] # c THEN Find(s, i + 1, c) ELSE i

\* str.strip()
Strip(s) == Slice(s, SkipSpace(s, 1), SkipSpaceBack(s, Len(s)))

\* the literal lit stands in s at position i (as written)
LitAt(s, i, lit) ==
  /\ i >= 1
  /\ i + Len(lit) - 1 <= Len(s)
  /\ \A k \in 1..Len(lit) : s[i + k - 1] = lit[k]

\* the literal lit stands in s at position i, under re.IGNORECASE
LitAtNoCase(s, i, lit) ==
  /\ i >= 1
  /\ i + Len(lit) - 1 <= Len(s)
  /\ \A k \in 1..Len(lit) : LowerChar(s[i + k - 1]) = LowerChar(lit[k])

\* lit in s
Contains(s, lit) == \E i \in 1..(Len(s) - Len(lit) + 1) : LitAt(s, i, lit)

\* str(i) for a natural number i
RECURSIVE IntToStr(_)
IntToStr(i) ==
  IF i < 10 THEN <<Digits[i + 1]>>
  ELSE IntToStr(i \div 10) \o <<Digits[(i % 10) + 1]>>

\* the concatenation of a sequence of texts
RECURSIVE Concat(_)
Concat(ss) == IF ss = <<>> THEN <<>> ELSE Head(ss) \o Concat(Tail(ss))

\* d[k] = v on a dict d (a function from keys to values)
DictSet(d, k, v) ==
  [x \in (DOMAIN d) \cup {k} |-> IF x = k THEN v ELSE d[x]]

\* {}
EmptyDict == [x \in {} |-> <<>>]

--------------------------------------------------------------------------
(* safe_extract_code_blocks: src/app.py:46-65                              *)

Dashes == <<"-","-","-">>
DashesNl == <<"-","-","-","\n">>
EndWord == <<"e","n","d">>
\* the backquote character (SANY reads no backquote inside a string, so this
\* one-character text is written by name)
Backquote == "BACKQUOTE"
Fence == <<Backquote, Backquote, Backquote>>
HtmlMarker == <<"<","h","t","m","l">>
DoctypeMarker == <<"<","!","d","o","c","t","y","p","e"," ","h","t","m","l">>
IndexHtml == <<"i","n","d","e","x",".","h","t","m","l">>

\* ---\s*end\s*--- at position i of s (re.IGNORECASE): the position after the
\* match, or 0 when there is no match at i
CloseAt(s, i) ==
  IF ~LitAt(s, i, Dashes) THEN 0
  ELSE LET j == SkipSpace(s, i + 3) IN
       IF ~LitAtNoCase(s, j, EndWord) THEN 0
       ELSE LET k == SkipSpace(s, j + 3) IN
            IF LitAt(s, k, Dashes) THEN k + 3 ELSE 0

\* the lazy group before \s*---\n : the least e >= i at which \s*---\n matches
\* (re.DOTALL: . matches a newline too), or 0
RECURSIVE HeaderEnd(_, _)
HeaderEnd(s, i) ==
  IF i > Len(s) + 1 THEN 0
  ELSE IF LitAt(s, SkipSpace(s, i), DashesNl) THEN i
  ELSE HeaderEnd(s, i + 1)

\* the lazy group before ---\s*end\s*--- : the least g >= i at which the closing
\* marker matches, or 0
RECURSIVE CloseFrom(_, _)
CloseFrom(s, i) ==
  IF i > Len(s) THEN 0
  ELSE IF CloseAt(s, i) # 0 THEN i
  ELSE CloseFrom(s, i + 1)

\* the match of the pattern of line 49 (---, \s*, lazy group 1, \s*, ---\n, lazy
\* group 2, ---, \s*, end, \s*, ---; a greedy \s* before a lazy group takes the
\* whole run of whitespace, and a lazy group ends at the first position where
\* the rest of the pattern matches) that starts at position
\* i of s: [ok, filename, content, next]
DelimitedAt(s, i) ==
  LET none == [ok |-> FALSE, filename |-> <<>>, content |-> <<>>, next |-> i + 1]
  IN
  IF ~LitAt(s, i, Dashes) THEN none
  ELSE LET n1 == SkipSpace(s, i + 3)
           e == HeaderEnd(s, n1)
       IN IF e = 0 THEN none
          ELSE LET c == SkipSpace(s, e) + 4
                   g == CloseFrom(s, c)
               IN IF g = 0 THEN none
                  ELSE [ok |-> TRUE,
                        filename |-> Slice(s, n1, e - 1),
                        content |-> Slice(s, c, g - 1),
                        next |-> CloseAt(s, g)]

\* re.findall(pattern, text, re.DOTALL | re.IGNORECASE) from position i on: the
\* (filename, content) pairs of the non-overlapping matches, left to right
RECURSIVE DelimitedMatches(_, _)
DelimitedMatches(s, i) ==
  IF i > Len(s) THEN <<>>
  ELSE LET m == DelimitedAt(s, i) IN
       IF m.ok THEN <<<<m.filename, m.content>>>> \o DelimitedMatches(s, m.next)
       ELSE DelimitedMatches(s, i + 1)

\* the end of the run of \w characters that starts at i
RECURSIVE SkipWord(_, _)
SkipWord(s, i) ==
  IF i <= Len(s) /\ IsWord(s[i]) THEN SkipWord(s, i + 1) ELSE i

\* the least g >= i at which the fence of three backquotes stands, or 0
RECURSIVE FenceFrom(_, _)
FenceFrom(s, i) ==
  IF i > Len(s) THEN 0
  ELSE IF LitAt(s, i, Fence) THEN i
  ELSE FenceFrom(s, i + 1)

\* the match of the pattern of line 57 (three backquotes, an optional run of \w, \n, a lazy
\* group, three backquotes) that starts at position i: [ok, body, next]
FencedAt(s, i) ==
  LET none == [ok |-> FALSE, body |-> <<>>, next |-> i + 1] IN
  IF ~LitAt(s, i, Fence) THEN none
  ELSE LET w == SkipWord(s, i + 3) IN
       IF ~LitAt(s, w, <<"\n">>) THEN none
       ELSE LET g == FenceFrom(s, w + 1) IN
            IF g = 0 THEN none
            ELSE [ok |-> TRUE, body |-> Slice(s, w + 1, g - 1), next |-> g + 3]

\* re.findall of the fenced pattern (re.DOTALL) from position i on
RECURSIVE FencedMatches(_, _)
FencedMatches(s, i) ==
  IF i > Len(s) THEN <<>>
  ELSE LET m == FencedAt(s, i) IN
       IF m.ok THEN <<m.body>> \o FencedMatches(s, m.next)
       ELSE FencedMatches(s, i + 1)

\* f"file_{i}.txt"
FencedFileName(i) ==
  <<"f","i","l","e","_">> \o IntToStr(i) \o <<".","t","x","t">>

\* StoreDelimited storing the content as matched: files[filename.strip()] = content
RECURSIVE StoreDelimitedUnstripped(_, _)
StoreDelimitedUnstripped(files, matches) ==
  IF matches = <<>> THEN files
  ELSE StoreDelimitedUnstripped(
         DictSet(files, Strip(Head(matches)[1]), Head(matches)[2]),
         Tail(matches))

\* for filename, content in matches: files[filename.strip()] = content.strip()
RECURSIVE StoreDelimited(_, _)
StoreDelimited(files, matches) ==
  IF matches = <<>> THEN files
  ELSE StoreDelimited(
         DictSet(files, Strip(Head(matches)[1]), Strip(Head(matches)[2])),
         Tail(matches))

\* for i, cb in enumerate(codeblocks, 1): files[f"file_{i}.txt"] = cb.strip()
RECURSIVE StoreFenced(_, _, _)
StoreFenced(files, codeblocks, i) ==
  IF i > Len(codeblocks) THEN files
  ELSE StoreFenced(DictSet(files, FencedFileName(i), Strip(codeblocks[i])),
                   codeblocks, i + 1)

\* "<html" in text.lower() or "<!doctype html" in text.lower()
LooksLikeHtml(text) ==
  Contains(Lower(text), HtmlMarker) \/ Contains(Lower(text), DoctypeMarker)

\* HtmlFallback without the test of files: if (...): files["index.html"] = ...
HtmlFallbackMerging(files, text) ==
  IF LooksLikeHtml(text)
    THEN DictSet(files, IndexHtml, Strip(text))
    ELSE files

\* the HTML fallback: if not files and (...): files["index.html"] = text.strip()
HtmlFallback(files, text) ==
  IF files = EmptyDict /\ LooksLikeHtml(text)
    THEN DictSet(files, IndexHtml, Strip(text))
    ELSE files

safe_extract_code_blocks(text) ==
  LET matches == DelimitedMatches(text, 1) IN
  IF matches # <<>> THEN StoreDelimited(EmptyDict, matches)
  ELSE HtmlFallback(StoreFenced(EmptyDict, FencedMatches(text, 1), 1), text)

\* the wire format llm_generate asks the completion service for
\* (src/app.py:533-535): --- filename ---, the contents, --- end ---
RenderBlock(path, content) ==
  Dashes \o <<" ">> \o path \o <<" ">> \o Dashes \o <<"\n">>
    \o content \o <<"\n">>
    \o Dashes \o <<" ">> \o EndWord \o <<" ">> \o Dashes

\* the blocks of a sequence of (path, content) pairs, concatenated
RECURSIVE Render(_)
Render(es) ==
  IF es = <<>> THEN <<>>
  ELSE RenderBlock(Head(es)[1], Head(es)[2]) \o Render(Tail(es))

--------------------------------------------------------------------------
(* mock_generator_from_settings: src/app.py:70-523                         *)
(*                                                                         *)
(* A file's content is a record of the values the source substitutes into  *)
(* its template: the fixed text of a template is named by kind.            *)

\* the framework choices of the selectbox (src/app.py:587)
ReactTailwind == <<"R","e","a","c","t"," ","+"," ","T","a","i","l","w","i","n","d">>
StaticHtmlCss == <<"S","t","a","t","i","c"," ","H","T","M","L","/","C","S","S">>

\* page names the source names
HomeName == <<"H","o","m","e">>
AboutName == <<"A","b","o","u","t">>
ContactName == <<"C","o","n","t","a","c","t">>
LoginName == <<"L","o","g","i","n">>

\* str.split(): the maximal runs of non-whitespace characters of s, from i on
RECURSIVE SplitWords(_, _)
SplitWords(s, i) ==
  LET b == SkipSpace(s, i) IN
  IF b > Len(s) THEN <<>>
  ELSE LET e == SkipToSpace(s, b)
       IN <<Slice(s, b, e - 1)>> \o SplitWords(s, e)

\* str.capitalize(): the first character in upper case, the rest in lower case
Capitalize(w) ==
  [i \in 1..Len(w) |-> IF i = 1 THEN UpperChar(w[i]) ELSE LowerChar(w[i])]

\* comp_name = ''.join(word.capitalize() for word in p.split())
CompName(p) ==
  LET ws == SplitWords(p, 1) IN Concat([i \in 1..Len(ws) |-> Capitalize(ws[i])])

\* str.replace(" ", "-")
SpacesToHyphens(s) == [i \in 1..Len(s) |-> IF s[i] = " " THEN "-" ELSE s[i]]

\* route_path = "/" if p.lower() == "home" else "/" + p.lower().replace(" ", "-")
RoutePath(p) ==
  IF Lower(p) = Lower(HomeName) THEN <<"/">>
  ELSE <<"/">> \o SpacesToHyphens(Lower(p))

\* the Link target of the sidebar: "/" if p.lower()=="home" else "/" + p.lower()
SidebarLink(p) ==
  IF Lower(p) = Lower(HomeName) THEN <<"/">> ELSE <<"/">> \o Lower(p)

\* f"src/pages/{comp_name}.jsx"
PageFile(comp) == <<"s","r","c","/","p","a","g","e","s","/">> \o comp \o <<".","j","s","x">>

\* charts and p.lower() in ("analytics", "dashboard", "home")
ChartPage(charts, p) ==
  charts /\ Lower(p) \in { <<"a","n","a","l","y","t","i","c","s">>,
                           <<"d","a","s","h","b","o","a","r","d">>,
                           <<"h","o","m","e">> }

\* the module of one entry of pages (src/app.py:217-234)
GenericPage(p, charts) ==
  [kind |-> "page", comp |-> CompName(p), heading |-> p,
   chart |-> ChartPage(charts, p)]

\* the fixed modules of the extra pages (src/app.py:254-264, 270-339, 347-381)
AboutPage == [kind |-> "about"]
ContactForm == [kind |-> "contact_form", fields |-> <<"name", "email", "message">>,
                clears |-> TRUE]
LoginForm == [kind |-> "login_form", fields |-> <<"email", "password">>]

\* the loop over pages (src/app.py:215-242): page_files, imports, routes_code
RECURSIVE PageLoop(_, _, _, _)
PageLoop(pages, charts, i, acc) ==
  IF i > Len(pages) THEN acc
  ELSE LET p == pages[i]
           comp == CompName(p)
       IN PageLoop(pages, charts, i + 1,
            [page_files |-> DictSet(acc.page_files, PageFile(comp),
                                    GenericPage(p, charts)),
             pages_added |-> acc.pages_added,
             imports |-> Append(acc.imports, comp),
             routes |-> Append(acc.routes,
                               [path |-> RoutePath(p), element |-> comp])])

\* if settings.get("about") and "About" not in pages_added: ...;
\* pages_added.add("About") (src/app.py:251-265)
AddAbout(acc, about) ==
  IF about /\ AboutName \notin acc.pages_added
    THEN [page_files |-> DictSet(acc.page_files, PageFile(AboutName), AboutPage),
          pages_added |-> acc.pages_added \cup {AboutName},
          imports |-> Append(acc.imports, AboutName),
          routes |-> Append(acc.routes,
                            [path |-> <<"/","a","b","o","u","t">>, element |-> AboutName])]
    ELSE acc

\* if settings.get("contact") and "Contact" not in pages_added (src/app.py:267-340)
AddContact(acc, contact) ==
  IF contact /\ ContactName \notin acc.pages_added
    THEN [page_files |-> DictSet(acc.page_files, PageFile(ContactName), ContactForm),
          pages_added |-> acc.pages_added \cup {ContactName},
          imports |-> Append(acc.imports, ContactName),
          routes |-> Append(acc.routes,
                            [path |-> <<"/","c","o","n","t","a","c","t">>,
                             element |-> ContactName])]
    ELSE acc

\* AddLogin without the assignment page_files["src/pages/Login.jsx"] = ...
AddLoginWithoutFile(acc, login) ==
  IF login /\ LoginName \notin acc.pages_added
    THEN [page_files |-> acc.page_files,
          pages_added |-> acc.pages_added \cup {LoginName},
          imports |-> Append(acc.imports, LoginName),
          routes |-> Append(acc.routes,
                            [path |-> <<"/","l","o","g","i","n">>, element |-> LoginName])]
    ELSE acc

\* if login and "Login" not in pages_added (src/app.py:344-382)
AddLogin(acc, login) ==
  IF login /\ LoginName \notin acc.pages_added
    THEN [page_files |-> DictSet(acc.page_files, PageFile(LoginName), LoginForm),
          pages_added |-> acc.pages_added \cup {LoginName},
          imports |-> Append(acc.imports, LoginName),
          routes |-> Append(acc.routes,
                            [path |-> <<"/","l","o","g","i","n">>, element |-> LoginName])]
    ELSE acc

\* pages_added = set(pages)
PagesAdded(pages) == {pages[i] : i \in 1..Len(pages)}

\* page_files, imports and routes_code after the loop and the three extra pages
PageModules(settings) ==
  LET looped == PageLoop(settings.pages, settings.charts, 1,
                         [page_files |-> EmptyDict,
                          pages_added |-> PagesAdded(settings.pages),
                          imports |-> <<>>, routes |-> <<>>])
  IN AddLogin(AddContact(AddAbout(looped, settings.about), settings.contact),
              settings.login)

\* the sidebar block (src/app.py:388-398): one Link per entry of pages
SidebarCode(settings) ==
  IF settings.sidebar
    THEN [on |-> TRUE, title |-> settings.title,
          links |-> [i \in 1..Len(settings.pages) |->
                       [to |-> SidebarLink(settings.pages[i]),
                        label |-> settings.pages[i]]]]
    ELSE [on |-> FALSE, title |-> <<>>, links |-> <<>>]

\* the navbar block (src/app.py:401-428): an inline style for a hex colour, a
\* class otherwise
NavCode(settings) ==
  IF settings.navbar
    THEN [on |-> TRUE, title |-> settings.title,
          inline |-> (Len(settings.navbar_color) > 0 /\ settings.navbar_color[1] = "#"),
          color |-> settings.navbar_color]
    ELSE [on |-> FALSE, title |-> <<>>, inline |-> FALSE, color |-> <<>>]

\* FooterCode with a stamp of the call in place of the year
FooterCodeStamped(settings) ==
  IF settings.footer
    THEN [on |-> TRUE, title |-> settings.title, year |-> year + gcalls]
    ELSE [on |-> FALSE, title |-> <<>>, year |-> 0]

\* the footer block (src/app.py:431-438)
FooterCode(settings) ==
  IF settings.footer
    THEN [on |-> TRUE, title |-> settings.title, year |-> year]
    ELSE [on |-> FALSE, title |-> <<>>, year |-> 0]

\* src/App.jsx: the template with its placeholders replaced (src/app.py:441-448)
AppModule(settings, modules) ==
  [kind |-> "app", imports |-> modules.imports, routes |-> modules.routes,
   sidebar |-> SidebarCode(settings), nav |-> NavCode(settings),
   footer |-> FooterCode(settings)]

\* index_preview.html (src/app.py:471-497); pages[0] is read
PreviewHtml(settings) ==
  [kind |-> "preview", title |-> settings.title, color |-> settings.navbar_color,
   sidebar |-> IF settings.sidebar THEN settings.pages ELSE <<>>,
   first |-> settings.pages[1], charts |-> settings.charts,
   login |-> settings.login]

\* for path, content in page_files.items(): files[path] = content
MergeDict(files, page_files) ==
  [k \in (DOMAIN files) \cup (DOMAIN page_files) |->
     IF k \in DOMAIN page_files THEN page_files[k] ELSE files[k]]

Fixed(name) == [kind |-> "fixed", name |-> name]

\* the files of the React + Tailwind branch that no setting changes
\* (src/app.py:104-176)
ReactFixedFiles ==
  LET f1 == DictSet(EmptyDict, <<"p","a","c","k","a","g","e",".","j","s","o","n">>,
                    Fixed("package.json"))
      f2 == DictSet(f1, IndexHtml, Fixed("vite index.html"))
      f3 == DictSet(f2, <<"t","a","i","l","w","i","n","d",".","c","o","n","f","i","g",".","c","j","s">>,
                    Fixed("tailwind.config.cjs"))
      f4 == DictSet(f3, <<"p","o","s","t","c","s","s",".","c","o","n","f","i","g",".","c","j","s">>,
                    Fixed("postcss.config.cjs"))
      f5 == DictSet(f4, <<"s","r","c","/","i","n","d","e","x",".","c","s","s">>,
                    Fixed("src/index.css"))
  IN DictSet(f5, <<"s","r","c","/","m","a","i","n",".","j","s","x">>, Fixed("src/main.jsx"))

\* the files written after the page files (src/app.py:455-497)
ReactLastFiles(settings) ==
  LET f9 == DictSet(EmptyDict, <<"s","r","c","/","s","t","y","l","e","s",".","c","s","s">>,
                    Fixed("src/styles.css"))
      f10 == DictSet(f9, <<"R","E","A","D","M","E",".","m","d">>,
                     [kind |-> "readme", title |-> settings.title])
      f11 == DictSet(f10, <<"s","e","t","u","p",".","s","h">>, Fixed("setup.sh"))
      f12 == DictSet(f11, <<"s","e","t","u","p",".","b","a","t">>, Fixed("setup.bat"))
  IN DictSet(f12, <<"i","n","d","e","x","_","p","r","e","v","i","e","w",".","h","t","m","l">>,
             PreviewHtml(settings))

\* the React + Tailwind branch (src/app.py:102-499): the assignments to files in
\* the order of the source, a later one replacing an earlier one of the same key
ReactFiles(settings) ==
  LET modules == PageModules(settings)
      f7 == DictSet(ReactFixedFiles, <<"s","r","c","/","A","p","p",".","j","s","x">>,
                    AppModule(settings, modules))
      f8 == MergeDict(f7, modules.page_files)
  IN MergeDict(f8, ReactLastFiles(settings))

\* StaticFiles with a section only for the first entry of each name
StaticFilesOncePerName(settings) ==
  LET first == SelectSeq([i \in 1..Len(settings.pages) |-> i],
                 LAMBDA i : \A j \in 1..(i - 1) : settings.pages[j] # settings.pages[i])
  IN DictSet(
       DictSet(EmptyDict, IndexHtml,
               [kind |-> "static_index", title |-> settings.title,
                sections |-> [n \in 1..Len(first) |->
                                [heading |-> settings.pages[first[n]],
                                 sentence |-> settings.pages[first[n]]]]]),
       <<"s","t","y","l","e","s",".","c","s","s">>, Fixed("styles.css"))

\* the static branch (src/app.py:501-523): one section per entry of pages
StaticFiles(settings) ==
  DictSet(
    DictSet(EmptyDict, IndexHtml,
            [kind |-> "static_index", title |-> settings.title,
             sections |-> [i \in 1..Len(settings.pages) |->
                             [heading |-> settings.pages[i],
                              sentence |-> settings.pages[i]]]]),
    <<"s","t","y","l","e","s",".","c","s","s">>, Fixed("styles.css"))

\* if "react" in framework.lower()
IsReact(framework) == Contains(Lower(framework), <<"r","e","a","c","t">>)

\* the call raises: pages[0] of an empty list (src/app.py:490)
GeneratorRaises(settings, framework) ==
  IsReact(framework) /\ settings.pages = <<>>

mock_generator_from_settings(settings, framework) ==
  IF IsReact(framework) THEN ReactFiles(settings) ELSE StaticFiles(settings)

--------------------------------------------------------------------------
(* The Streamlit script (src/app.py:553-826), one script run per action    *)
(*                                                                         *)
(* Streamlit reruns the whole script on every interaction. A widget call   *)
(* returns the browser's value when a widget of the same identity (label   *)
(* and default) was on the page the interaction came from, and its default *)
(* otherwise; a button returns True in the run its click caused, if that   *)
(* run renders a button of that label.                                     *)
(* The answers title, navbar, navbar_color, sidebar, footer, charts, theme *)
(* and custom_color are not kept in qa_answers here: Settings takes their  *)
(* defaults (OtherAnswers).                                                *)

\* d.get(k, default)
Get(d, k, default) == IF k \in DOMAIN d THEN d[k] ELSE default

\* str.startswith
StartsWith(s, prefix) == LitAt(s, 1, prefix)

\* ", ".join(pages)
RECURSIVE JoinPages(_)
JoinPages(pages) ==
  IF pages = <<>> THEN <<>>
  ELSE IF Len(pages) = 1 THEN pages[1]
  ELSE pages[1] \o <<",", " ">> \o JoinPages(Tail(pages))

\* [p.strip() for p in pages_text.split(",") if p.strip()], from position i on
RECURSIVE SplitPages(_, _)
SplitPages(text, i) ==
  LET e == Find(text, i, ",")
      item == Strip(Slice(text, i, e - 1))
      rest == IF e > Len(text) THEN <<>> ELSE SplitPages(text, e + 1)
  IN IF item = <<>> THEN rest ELSE <<item>> \o rest

\* the default of the pages input when qa_answers holds no pages (src/app.py:617)
DefaultPagesShown ==
  << HomeName, <<"A","n","a","l","y","t","i","c","s">>,
     <<"S","e","t","t","i","n","g","s">> >>

\* the defaults Settings takes for the answers this model does not keep
\* (src/app.py:721-730)
OtherAnswers ==
  [title |-> <<"M","y"," ","S","i","t","e">>, navbar |-> TRUE,
   navbar_color |-> <<"#","5","B","2","E","0","F">>, sidebar |-> TRUE, footer |-> FALSE,
   charts |-> FALSE, theme |-> <<"l","i","g","h","t">>,
   custom_color |-> <<"#","5","B","2","E","0","F">>]

\* what the user may type into the pages input
TypedTexts ==
  { <<>>,
    <<"C","o","n","t","a","c","t",","," ","H","o","m","e",",","H","o","m","e">> }

\* what the completion service may answer: three files, two of them with names
\* that leave the project folder; nothing the parser recognizes
RemoteTexts ==
  { RenderBlock(<<"a">>, <<"x">>) \o RenderBlock(<<".",".","/","x">>, <<"x">>)
      \o RenderBlock(<<"/","x">>, <<"y">>),
    <<"S","o","r","r","y",".">> }

\* the outcomes of completion(...): it raises, or returns a text
RemoteOutcomes ==
  {[raises |-> TRUE, text |-> <<>>]}
    \cup {[raises |-> FALSE, text |-> t] : t \in RemoteTexts}

\* a widget that is not on the page
Hidden == [shown |-> FALSE, id |-> <<>>, value |-> <<>>]

Shown(id, value) == [shown |-> TRUE, id |-> id, value |-> value]

\* the interactions the page of the last run allows
Events ==
  IF ~started THEN {[type |-> "load", arg |-> <<>>]}
  ELSE {[type |-> "click", arg |-> b] : b \in buttons}
    \cup {[type |-> "checkbox", arg |-> c] : c \in {"contact", "about", "login"}}
    \cup {[type |-> "llm", arg |-> <<>>] : x \in {1} \cap (IF llmWidget.shown THEN {1} ELSE {})}
    \cup {[type |-> "radio", arg |-> c] :
            c \in {c \in {"login", "contact", "about"} : featWidget[c].shown}}
    \cup {[type |-> "adv", arg |-> v] :
            v \in IF advWidget.shown THEN BOOLEAN \ {advWidget.value} ELSE {}}
    \cup {[type |-> "framework", arg |-> f] :
            f \in IF fwWidget.shown
                    THEN {ReactTailwind, StaticHtmlCss} \ {fwWidget.value}
                    ELSE {}}
    \cup {[type |-> "pages", arg |-> t] :
            t \in IF pagesWidget.shown THEN TypedTexts \ {pagesWidget.value} ELSE {}}

\* st.button(label) in the run that event e caused
Clicked(e, label) == e.type = "click" /\ e.arg = label

\* the value a widget call returns: the browser's value (after the event, if
\* the event changed this widget) when the widget was on the page with the
\* same identity, its default otherwise
WidgetValue(w, kind, id, default, e) ==
  IF w.shown /\ w.id = id
    THEN IF e.type = kind THEN e.arg ELSE w.value
    ELSE default

\* go_next (src/app.py:571-572)
go_next(step) == step + 1

\* go_back (src/app.py:574-576)
go_back(step) == IF step > 0 THEN step - 1 ELSE step

\* what a step of the sidebar leaves: the session state and the widgets rendered
Rendered(answers, step, advanced, trigger, btns, fw, pg, adv) ==
  [answers |-> answers, qa_step |-> step, qa_advanced |-> advanced,
   trigger |-> trigger, buttons |-> btns, fw |-> fw, pg |-> pg, adv |-> adv]

\* Next and Back of a step (src/app.py:589-592 and alike): Next is tested first
NextBack(e) ==
  LET s1 == IF Clicked(e, "Next") THEN go_next(qa_step) ELSE qa_step
  IN IF Clicked(e, "Back") THEN go_back(s1) ELSE s1

\* step 0: the title (src/app.py:579-583)
StepTitle(e) ==
  Rendered(qa_answers,
           IF Clicked(e, "Next") THEN go_next(qa_step) ELSE qa_step,
           qa_advanced, generate_trigger, {"Next"}, Hidden, Hidden, Hidden)

\* step 1: the framework (src/app.py:586-592)
StepFramework(e) ==
  LET index == IF Get(qa_answers, "framework", ReactTailwind) = ReactTailwind
                 THEN 0 ELSE 1
      framework_choice ==
        WidgetValue(fwWidget, "framework", index,
                    <<ReactTailwind, StaticHtmlCss>>[index + 1], e)
  IN Rendered(DictSet(qa_answers, "framework", framework_choice),
              NextBack(e), qa_advanced, generate_trigger, {"Next", "Back"},
              Shown(index, framework_choice), Hidden, Hidden)

\* steps 2 and 3: navbar and sidebar (src/app.py:595-613)
StepNavOrSidebar(e) ==
  Rendered(qa_answers, NextBack(e), qa_advanced, generate_trigger,
           {"Next", "Back"}, Hidden, Hidden, Hidden)

\* step 4: the pages (src/app.py:616-626)
StepPages(e) ==
  LET default == JoinPages(Get(qa_answers, "pages", DefaultPagesShown))
      pages_text == WidgetValue(pagesWidget, "pages", default, default, e)
      pages_list == SplitPages(pages_text, 1)
  IN Rendered(IF pages_list = <<>> THEN qa_answers
              ELSE DictSet(qa_answers, "pages", pages_list),
              NextBack(e), qa_advanced, generate_trigger, {"Next", "Back"},
              Hidden, Shown(default, pages_text), Hidden)

\* StepAdvanced with Finish jumping to step 7
StepAdvancedFinishTo7(e) ==
  LET index == IF ~qa_advanced THEN 0 ELSE 1
      adv == WidgetValue(advWidget, "adv", index, qa_advanced, e)
      s1 == IF adv
              THEN IF Clicked(e, "Continue") THEN go_next(qa_step) ELSE qa_step
              ELSE IF Clicked(e, "Finish") THEN 7 ELSE qa_step
      s2 == IF Clicked(e, "Back") THEN go_back(s1) ELSE s1
  IN Rendered(qa_answers, s2, adv, generate_trigger,
              (IF adv THEN {"Continue"} ELSE {"Finish"}) \cup {"Back"},
              Hidden, Hidden, Shown(index, adv))

\* step 5: customize more features? (src/app.py:629-643)
StepAdvanced(e) ==
  LET index == IF ~qa_advanced THEN 0 ELSE 1
      adv == WidgetValue(advWidget, "adv", index, qa_advanced, e)
      s1 == IF adv
              THEN IF Clicked(e, "Continue") THEN go_next(qa_step) ELSE qa_step
              ELSE IF Clicked(e, "Finish") THEN 6 ELSE qa_step
      s2 == IF Clicked(e, "Back") THEN go_back(s1) ELSE s1
  IN Rendered(qa_answers, s2, adv, generate_trigger,
              (IF adv THEN {"Continue"} ELSE {"Finish"}) \cup {"Back"},
              Hidden, Hidden, Shown(index, adv))

\* st.radio(..., ["No", "Yes"], index=0 if not answers.get(c, False) else 1)
\* (src/app.py:649, 664, 667): the radio of answer c is on the page with the
\* choice the answer had when the run began as its default
RadioWidget(c, e) ==
  LET index == Get(qa_answers, c, FALSE)
      w == featWidget[c]
  IN Shown(index,
           IF w.shown /\ w.id = index
             THEN IF e.type = "radio" /\ e.arg = c THEN ~w.value ELSE w.value
             ELSE index)

\* step 6 with qa_advanced: the advanced questions (src/app.py:646-675), of
\* which the answers login, contact and about are kept
StepFeatures(e) ==
  Rendered(DictSet(DictSet(DictSet(qa_answers,
             "login", RadioWidget("login", e).value),
             "contact", RadioWidget("contact", e).value),
             "about", RadioWidget("about", e).value),
           NextBack(e), qa_advanced, generate_trigger,
           {"Next", "Back"}, Hidden, Hidden, Hidden)

\* the final step: confirm and generate (src/app.py:678-699)
StepConfirm(e) ==
  Rendered(qa_answers,
           IF Clicked(e, "Back") THEN go_back(qa_step) ELSE qa_step,
           qa_advanced,
           generate_trigger \/ Clicked(e, "Generate site now"),
           {"Generate site now", "Back"}, Hidden, Hidden, Hidden)

\* no branch of the chain matches: nothing is rendered
StepNone(e) ==
  Rendered(qa_answers, qa_step, qa_advanced, generate_trigger, {},
           Hidden, Hidden, Hidden)

\* the name of the branch of the if/elif chain that step and qa_advanced select
Panel(step, advanced) ==
  IF step = 0 THEN "title"
  ELSE IF step = 1 THEN "framework"
  ELSE IF step = 2 THEN "navbar"
  ELSE IF step = 3 THEN "sidebar"
  ELSE IF step = 4 THEN "pages"
  ELSE IF step = 5 THEN "advanced"
  ELSE IF step = 6 /\ advanced THEN "features"
  ELSE IF (step = 6 /\ ~advanced) \/ (step = 7 /\ advanced) THEN "confirm"
  ELSE "none"

\* the sidebar of one run (src/app.py:564-699): step is read once, at the top
Sidebar(e) ==
  LET panel == Panel(qa_step, qa_advanced) IN
  IF panel = "title" THEN StepTitle(e)
  ELSE IF panel = "framework" THEN StepFramework(e)
  ELSE IF panel \in {"navbar", "sidebar"} THEN StepNavOrSidebar(e)
  ELSE IF panel = "pages" THEN StepPages(e)
  ELSE IF panel = "advanced" THEN StepAdvanced(e)
  ELSE IF panel = "features" THEN StepFeatures(e)
  ELSE IF panel = "confirm" THEN StepConfirm(e)
  ELSE StepNone(e)

\* the three radios after the run that event e causes
FeatureRadios(e) ==
  [c \in {"login", "contact", "about"} |->
     IF Panel(qa_step, qa_advanced) = "features" THEN RadioWidget(c, e) ELSE Hidden]

\* st.checkbox("Include ... Page?", value=False) (src/app.py:711-713)
CheckboxValue(c, e) ==
  IF ~started THEN FALSE
  ELSE IF e.type = "checkbox" /\ e.arg = c THEN ~checkbox[c] ELSE checkbox[c]

\* pages = answers.get("pages", []); if not pages: pages = ["Home"]
\* (src/app.py:714-716)
PagesOrHome(answers) ==
  LET pages == Get(answers, "pages", <<>>) IN
  IF pages = <<>> THEN <<HomeName>> ELSE pages

\* x in list
InList(x, list) == \E i \in 1..Len(list) : list[i] = x

\* if settings[toggle] and name not in settings["pages"]: append (src/app.py:734-739)
AppendIfMissing(pages, toggle, name) ==
  IF toggle /\ ~InList(name, pages) THEN Append(pages, name) ELSE pages

\* settings["pages"] after the three appends; the list is qa_answers["pages"]
\* itself, so the session's list grows with it
SettingsPages(pages, contact, login, about) ==
  AppendIfMissing(
    AppendIfMissing(AppendIfMissing(pages, contact, ContactName), login, LoginName),
    about, AboutName)

\* the settings dict (src/app.py:720-739)
BuildSettings(answers, pages) ==
  [title |-> OtherAnswers.title,
   navbar |-> OtherAnswers.navbar,
   navbar_color |-> OtherAnswers.navbar_color,
   sidebar |-> OtherAnswers.sidebar,
   pages |-> SettingsPages(pages, Get(answers, "contact", FALSE),
                           Get(answers, "login", FALSE),
                           Get(answers, "about", FALSE)),
   footer |-> OtherAnswers.footer,
   login |-> Get(answers, "login", FALSE),
   charts |-> OtherAnswers.charts,
   theme |-> OtherAnswers.theme,
   custom_color |-> OtherAnswers.custom_color,
   contact |-> Get(answers, "contact", FALSE),
   about |-> Get(answers, "about", FALSE)]

\* the project folder (src/app.py:771-774), as path segments below the root
WorkingDir == <<<<"a","p","p">>>>
ProjectFolder ==
  WorkingDir \o << <<"o","u","t","p","u","t">>,
                   <<"g","e","n","e","r","a","t","e","d","_","f","r","o","n","t","e","n","d","_","t","s">> >>

\* str.split("/") of a path, from position i on
RECURSIVE SplitSlash(_, _)
SplitSlash(path, i) ==
  LET e == Find(path, i, "/")
  IN <<Slice(path, i, e - 1)>>
       \o (IF e > Len(path) THEN <<>> ELSE SplitSlash(path, e + 1))

\* the directory the operating system reaches from dir through segments:
\* an empty segment and "." stay, ".." goes to the parent
RECURSIVE Walk(_, _)
Walk(dir, segments) ==
  IF segments = <<>> THEN dir
  ELSE LET seg == Head(segments) IN
       IF seg = <<>> \/ seg = <<".">> THEN Walk(dir, Tail(segments))
       ELSE IF seg = <<".", ".">>
         THEN Walk(IF dir = <<>> THEN <<>> ELSE SubSeq(dir, 1, Len(dir) - 1),
                   Tail(segments))
       ELSE Walk(Append(dir, seg), Tail(segments))

\* file_path = project_folder / fname (src/app.py:777): pathlib keeps an
\* absolute fname as it is
FilePath(fname) ==
  IF StartsWith(fname, <<"/">>)
    THEN Walk(<<>>, SplitSlash(fname, 1))
    ELSE Walk(ProjectFolder, SplitSlash(fname, 1))

\* the files the loop of src/app.py:776-784 writes
WrittenPaths(files_dict) == {FilePath(fname) : fname \in DOMAIN files_dict}

\* what a run finds when it reads them: GROQ_API_KEY in the secrets or the
\* environment (src/app.py:758), and the import of litellm.completion done at
\* the top of the script (src/app.py:13-18)
Environments ==
  {[hasKey |-> TRUE, LITELLM_AVAILABLE |-> TRUE],
   [hasKey |-> FALSE, LITELLM_AVAILABLE |-> TRUE],
   [hasKey |-> TRUE, LITELLM_AVAILABLE |-> FALSE]}

\* a run that reads neither
NotRead == [hasKey |-> FALSE, LITELLM_AVAILABLE |-> FALSE]

\* llm_generate (src/app.py:528-548): completion(...) is None when the import
\* failed, and calling it raises; otherwise the service raises or answers
llm_generate(env, outcome) ==
  IF ~env.LITELLM_AVAILABLE THEN [raised |-> TRUE, called |-> FALSE, files |-> EmptyDict]
  ELSE IF outcome.raises THEN [raised |-> TRUE, called |-> TRUE, files |-> EmptyDict]
  ELSE [raised |-> FALSE, called |-> TRUE,
        files |-> safe_extract_code_blocks(outcome.text)]

\* the condition of src/app.py:744 up to the checkbox: the framework answer is
\* set and starts with "react"
WantsReact(answers) ==
  /\ Get(answers, "framework", <<>>) # <<>>
  /\ StartsWith(Lower(Get(answers, "framework", <<>>)), <<"r","e","a","c","t">>)

\* the try block (src/app.py:742-806): [source, raised, called, files]
Generate(answers, settings, framework, use_llm, env, outcome) ==
  IF WantsReact(answers) /\ use_llm
    THEN IF ~env.hasKey
           THEN [source |-> "template", called |-> FALSE,
                 raised |-> GeneratorRaises(settings, framework),
                 files |-> IF GeneratorRaises(settings, framework) THEN EmptyDict
                           ELSE mock_generator_from_settings(settings, framework)]
           ELSE LET r == llm_generate(env, outcome) IN
                [source |-> "remote", called |-> r.called, raised |-> r.raised,
                 files |-> r.files]
    ELSE [source |-> "template", called |-> FALSE,
          raised |-> GeneratorRaises(settings, framework),
          files |-> IF GeneratorRaises(settings, framework) THEN EmptyDict
                    ELSE mock_generator_from_settings(settings, framework)]

\* the settings field of last in a run that builds no settings
NoSettings ==
  [title |-> <<>>, navbar |-> FALSE, navbar_color |-> <<>>, sidebar |-> FALSE,
   pages |-> <<>>, footer |-> FALSE, login |-> FALSE, charts |-> FALSE,
   theme |-> <<>>, custom_color |-> <<>>, contact |-> FALSE, about |-> FALSE]

\* last before the first run
NoRun ==
  [clicked |-> FALSE, generated |-> FALSE, use_llm |-> FALSE,
   env |-> NotRead, source |-> "none", called |-> FALSE, remote |-> "none",
   text |-> <<>>, result |-> "none", settings |-> NoSettings,
   framework |-> <<>>, files |-> EmptyDict, written |-> {}, archive |-> FALSE]

\* the run reads the key and, with a key, goes into llm_generate
ReadsEnvironment(answers, use_llm) == WantsReact(answers) /\ use_llm

\* the run reaches the call of completion(...) in llm_generate
CallsCompletion(answers, use_llm, env) ==
  WantsReact(answers) /\ use_llm /\ env.hasKey /\ env.LITELLM_AVAILABLE

\* no call of the completion service
NoCall == [raises |-> FALSE, text |-> <<>>]

\* MainAreaAnswers storing a checkbox only where the answers hold no value yet
MainAreaAnswersKeepingAnswers(answers, e) ==
  DictSet(DictSet(DictSet(answers,
    "contact", Get(answers, "contact", CheckboxValue("contact", e))),
    "about", Get(answers, "about", CheckboxValue("about", e))),
    "login", Get(answers, "login", CheckboxValue("login", e)))

\* st.session_state.qa_answers[c] = st.checkbox(...) for contact, about and
\* login (src/app.py:711-713)
MainAreaAnswers(answers, e) ==
  DictSet(DictSet(DictSet(answers,
    "contact", CheckboxValue("contact", e)),
    "about", CheckboxValue("about", e)),
    "login", CheckboxValue("login", e))

\* the run that event e causes, up to the try block: the sidebar, the three
\* checkboxes, pages and settings (src/app.py:564-740)
RunPlan(e) ==
  LET sb == Sidebar(e)
      a1 == MainAreaAnswers(sb.answers, e)
      pages == PagesOrHome(a1)
      settings == BuildSettings(a1, pages)
      a2 == DictSet(a1, "pages", IF sb.trigger THEN settings.pages ELSE pages)
      llm_rendered == sb.trigger /\ WantsReact(a2)
  IN [sb |-> sb, answers |-> a2, settings |-> settings,
      framework |-> Get(a2, "framework", ReactTailwind),
      llm_rendered |-> llm_rendered,
      use_llm |-> llm_rendered /\ llmWidget.shown
                    /\ (IF e.type = "llm" THEN ~llmWidget.value
                        ELSE llmWidget.value),
      clicked |-> Clicked(e, "Generate site now")]

\* ResultOf without the test "if not files_dict"
ResultOfWithoutEmptyCheck(g) == IF g.raised THEN "error" ELSE "written"

\* how the try block ends (src/app.py:768-806): the except branch, the error
\* "No files were generated.", or the files written and archived
ResultOf(g) ==
  IF g.raised THEN "error"
  ELSE IF g.files = EmptyDict THEN "no files"
  ELSE "written"

\* what the run leaves in last: the try block and the writing of the files
\* (src/app.py:718-806)
RunOutcome(plan, env, outcome) ==
  IF ~plan.sb.trigger
    THEN [clicked |-> plan.clicked, generated |-> FALSE,
          use_llm |-> FALSE, env |-> NotRead, source |-> "none", called |-> FALSE,
          remote |-> "none", text |-> <<>>, result |-> "none",
          settings |-> NoSettings, framework |-> <<>>,
          files |-> EmptyDict, written |-> {}, archive |-> FALSE]
    ELSE LET g == Generate(plan.answers, plan.settings, plan.framework,
                           plan.use_llm, env, outcome)
             result == ResultOf(g)
         IN [clicked |-> plan.clicked, generated |-> TRUE,
             use_llm |-> plan.use_llm, env |-> env, source |-> g.source,
             called |-> g.called,
             remote |-> IF ~g.called THEN "none"
                        ELSE IF outcome.raises THEN "raised" ELSE "answered",
             text |-> IF g.called THEN outcome.text ELSE <<>>,
             result |-> result, settings |-> plan.settings,
             framework |-> plan.framework, files |-> g.files,
             written |-> IF result = "written" THEN WrittenPaths(g.files)
                         ELSE {},
             archive |-> (result = "written")]

\* a session is followed until the generation block has run MaxGenerations times
MaxGenerations == 3

\* one run of the script, caused by event e. A run that goes into the LLM
\* branch finds a key or none and the import done or failed; the completion
\* service, if the run calls it, raises or answers one of RemoteTexts
Run(e) ==
  \E plan \in {RunPlan(e)} :
    \E env \in IF ReadsEnvironment(plan.answers, plan.use_llm)
                 THEN Environments ELSE {NotRead} :
    \E outcome \in IF CallsCompletion(plan.answers, plan.use_llm, env)
                     THEN RemoteOutcomes ELSE {NoCall} :
      /\ plan.sb.trigger => generations < MaxGenerations
      /\ generations' = IF plan.sb.trigger THEN generations + 1 ELSE generations
      /\ started' = TRUE
      /\ qa_step' = plan.sb.qa_step
      /\ qa_advanced' = plan.sb.qa_advanced
      /\ qa_answers' = plan.answers
      /\ generate_trigger' = plan.sb.trigger
      /\ buttons' = plan.sb.buttons
      /\ fwWidget' = plan.sb.fw
      /\ pagesWidget' = plan.sb.pg
      /\ advWidget' = plan.sb.adv
      /\ featWidget' = FeatureRadios(e)
      /\ checkbox' = [c \in {"contact", "about", "login"} |-> CheckboxValue(c, e)]
      /\ llmWidget' = IF plan.llm_rendered THEN Shown(<<>>, plan.use_llm)
                      ELSE Hidden
      /\ last' = RunOutcome(plan, env, outcome)

\* a script run: the first load of the page, or the rerun an interaction causes
ScriptRun ==
  /\ \E e \in Events : Run(e)
  /\ UNCHANGED <<parserVars, generatorVars, year>>

--------------------------------------------------------------------------
(* The inputs of the parser                                                *)

\* bounds of the parser's inputs
MaxFragments == 3
MaxRendered == 2

\* pieces of response text: markers, whole blocks and plain characters
Fragments ==
  { Dashes,
    DashesNl,
    <<" ">>,
    <<"\n">>,
    <<"a">>,
    <<"E","n","d">>,
    Dashes \o EndWord \o Dashes,
    Fence,
    <<"<","H","T","M","L",">">>,
    RenderBlock(<<"a">>, <<"x">>),
    RenderBlock(<<"s","/","b">>, <<"y">>),
    Fence \o <<"j","s","\n","z">> \o Fence }

\* the response texts: up to MaxFragments fragments, concatenated
RawTexts ==
  { Concat(fs) : fs \in UNION { [1..n -> Fragments] : n \in 0..MaxFragments } }

\* paths and contents of rendered mappings
PathChoices ==
  { <<"a">>, <<"s","/","b">>, <<" ","a">>, <<"a","-">> }

ContentChoices ==
  { <<"x">>,
    <<>>,
    <<"x","\n","y">>,
    <<"x","\n">>,
    <<" ","x">>,
    Dashes \o <<"E","N","D">> \o Dashes,
    Dashes \o EndWord,
    Dashes \o <<" ">> \o <<"q">> \o <<" ">> \o DashesNl \o <<"y">> }

\* the sequences of (path, content) pairs that are rendered
RenderedEntries ==
  UNION { [1..n -> PathChoices \X ContentChoices] : n \in 1..MaxRendered }

--------------------------------------------------------------------------
(* The inputs of the generator                                             *)

\* bound of the generator's inputs: the length of pages
MaxPages == 2

\* page names: the three the toggles add, names that differ from them in letter
\* case or spacing, and plain ones
PageNames ==
  { HomeName, ContactName, AboutName, LoginName,
    <<"c","o","n","t","a","c","t">>,
    <<"S","i","g","n"," ","U","p">> }

PagesChoices == UNION { [1..n -> PageNames] : n \in 0..MaxPages }

\* the settings dicts handed to the generator
SettingsChoices ==
  { [title |-> OtherAnswers.title, navbar |-> OtherAnswers.navbar,
     navbar_color |-> OtherAnswers.navbar_color, sidebar |-> sb,
     pages |-> pg, footer |-> ft, login |-> lg,
     charts |-> ch, theme |-> OtherAnswers.theme,
     custom_color |-> OtherAnswers.custom_color, contact |-> ct, about |-> ab] :
    sb \in BOOLEAN, pg \in PagesChoices, ft \in BOOLEAN, lg \in BOOLEAN,
    ch \in BOOLEAN, ct \in BOOLEAN, ab \in BOOLEAN }

--------------------------------------------------------------------------
(* Specifications                                                          *)

ThisYear == 2026

ParserIdle ==
  /\ ptext = <<>>
  /\ pentries = <<>>
  /\ pfiles = EmptyDict
  /\ pdone = FALSE

GeneratorIdle ==
  /\ gsettings = NoSettings
  /\ gframework = <<>>
  /\ gfiles = EmptyDict
  /\ gstate = "ready"
  /\ gcalls = 0
  /\ gyear = 0

\* the session before the first run of the script
SessionNew ==
  /\ started = FALSE
  /\ qa_step = 0
  /\ qa_advanced = FALSE
  /\ qa_answers = EmptyDict
  /\ generate_trigger = FALSE
  /\ buttons = {}
  /\ fwWidget = Hidden
  /\ pagesWidget = Hidden
  /\ advWidget = Hidden
  /\ featWidget = [c \in {"login", "contact", "about"} |-> Hidden]
  /\ checkbox = [c \in {"contact", "about", "login"} |-> FALSE]
  /\ llmWidget = Hidden
  /\ generations = 0
  /\ last = NoRun

SessionIdle == SessionNew

\* the parser applied to one text
InitParser ==
  /\ \/ /\ ptext \in RawTexts
        /\ pentries = <<>>
     \/ /\ pentries \in RenderedEntries
        /\ ptext = Render(pentries)
  /\ pfiles = EmptyDict
  /\ pdone = FALSE
  /\ GeneratorIdle
  /\ SessionIdle
  /\ year = ThisYear

\* files = safe_extract_code_blocks(text)
Extract ==
  /\ ~pdone
  /\ pfiles' = safe_extract_code_blocks(ptext)
  /\ pdone' = TRUE
  /\ UNCHANGED <<ptext, pentries, generatorVars, year, sessionVars>>

NextParser == Extract

SpecParser == InitParser /\ [][NextParser]_vars

\* the template generator applied to one settings dict
InitGenerator ==
  /\ gsettings \in SettingsChoices
  /\ gframework \in {ReactTailwind, StaticHtmlCss}
  /\ gfiles = EmptyDict
  /\ gstate = "ready"
  /\ gcalls = 0
  /\ gyear = 0
  /\ ParserIdle
  /\ SessionIdle
  /\ year = ThisYear

\* the generator is called up to MaxCalls times with the same arguments, over
\* up to MaxYears turns of the year
MaxCalls == 2
MaxYears == 1

\* files = mock_generator_from_settings(settings, framework)
CallGenerator ==
  /\ gstate # "raised"
  /\ gcalls < MaxCalls
  /\ IF GeneratorRaises(gsettings, gframework)
       THEN gstate' = "raised" /\ gfiles' = gfiles /\ gcalls' = gcalls
       ELSE /\ gstate' = "returned"
            /\ gfiles' = mock_generator_from_settings(gsettings, gframework)
            /\ gcalls' = gcalls + 1
  /\ gyear' = year
  /\ UNCHANGED <<gsettings, gframework, parserVars, year, sessionVars>>

\* the calendar year turns between two calls
NewYear ==
  /\ gcalls >= 1
  /\ gcalls < MaxCalls
  /\ year < ThisYear + MaxYears
  /\ year' = year + 1
  /\ UNCHANGED <<parserVars, generatorVars, sessionVars>>

NextGenerator == CallGenerator \/ NewYear

SpecGenerator == InitGenerator /\ [][NextGenerator]_vars

\* a session of the application
Init ==
  /\ SessionNew
  /\ ParserIdle
  /\ GeneratorIdle
  /\ year = ThisYear

Next == ScriptRun

Spec == Init /\ [][Next]_vars

--------------------------------------------------------------------------
(* Claims about the parser (under SpecParser)                              *)

\* the last index of ms whose stripped filename is k
LastMatchNamed(ms, k) ==
  CHOOSE i \in 1..Len(ms) :
    /\ Strip(ms[i][1]) = k
    /\ \A j \in (i + 1)..Len(ms) : Strip(ms[j][1]) # k

\* strategy 1 alone: one file per delimited block, named by its trimmed
\* filename line, holding its trimmed content
DelimitedFiles(text) ==
  LET ms == DelimitedMatches(text, 1) IN
  [k \in {Strip(ms[i][1]) : i \in 1..Len(ms)} |->
     Strip(ms[LastMatchNamed(ms, k)][2])]

\* strategy 2 alone: one file per fenced block, named by its position
FencedFiles(text) ==
  LET cbs == FencedMatches(text, 1) IN
  [k \in {FencedFileName(i) : i \in 1..Len(cbs)} |->
     Strip(cbs[CHOOSE i \in 1..Len(cbs) : FencedFileName(i) = k])]

\* strategy 3 alone: the whole trimmed text as index.html
HtmlFile(text) == [k \in {IndexHtml} |-> Strip(text)]

\* the first strategy that yields a file, and that strategy's files only
FirstStrategy(text) ==
  IF DelimitedMatches(text, 1) # <<>> THEN DelimitedFiles(text)
  ELSE IF FencedMatches(text, 1) # <<>> THEN FencedFiles(text)
  ELSE IF LooksLikeHtml(text) THEN HtmlFile(text)
  ELSE EmptyDict

\* C4: for every text, safe_extract_code_blocks returns the files of exactly
\* one strategy: the delimited blocks if there is one; otherwise the fenced
\* blocks, named file_1.txt, file_2.txt, ... in order of appearance, if there
\* is one; otherwise the trimmed text as index.html if the text holds an HTML
\* document marker in any letter case; otherwise the empty mapping. Files of
\* different strategies are never merged.
C4_OneStrategyOnly == pdone => pfiles = FirstStrategy(ptext)

\* C4 witness: a text that holds a delimited block, a fenced block and an HTML
\* marker was parsed, and only the delimited block's file came back
C4_Witness ==
  /\ pdone
  /\ DelimitedMatches(ptext, 1) # <<>>
  /\ FencedMatches(ptext, 1) # <<>>
  /\ LooksLikeHtml(ptext)
  /\ DOMAIN pfiles = {<<"a">>}

\* the mapping a sequence of (path, content) pairs with distinct paths stands for
MappingOf(es) ==
  [k \in {es[i][1] : i \in 1..Len(es)} |->
     es[CHOOSE i \in 1..Len(es) : es[i][1] = k][2]]

DistinctPaths(es) ==
  \A i, j \in 1..Len(es) : es[i][1] = es[j][1] => i = j

\* the closing marker as rendered
ClosingMarker == Dashes \o <<" ">> \o EndWord \o <<" ">> \o Dashes

\* the precondition of the round trip as the specification states it
RoundTripPre(es) ==
  /\ DistinctPaths(es)
  /\ \A i \in 1..Len(es) :
       /\ ~Contains(es[i][1], Dashes)
       /\ ~Contains(es[i][2], ClosingMarker)

\* the closing pattern (---, whitespace, end in any letter case, whitespace,
\* ---) first matches the rendered content at the rendered closing marker
ClosesAtMarkerOnly(content) ==
  CloseFrom(content \o <<"\n">> \o ClosingMarker, 1) = Len(content) + 2

\* the precondition under which the round trip holds
RoundTripPreTrimmed(es) ==
  /\ DistinctPaths(es)
  /\ \A i \in 1..Len(es) :
       /\ ~Contains(es[i][1], Dashes)
       /\ Strip(es[i][1]) = es[i][1]
       /\ Strip(es[i][2]) = es[i][2]
       /\ ClosesAtMarkerOnly(es[i][2])

\* C5 as stated: every mapping of distinct paths without '---' to contents
\* without the closing marker, rendered as delimited blocks, is returned by
\* safe_extract_code_blocks exactly
C5_RoundTripAsStated ==
  (pdone /\ pentries # <<>> /\ RoundTripPre(pentries))
    => pfiles = MappingOf(pentries)

\* C5 amended: the round trip holds for the mappings whose paths and contents
\* have no leading or trailing whitespace and whose contents hold nothing the
\* closing pattern matches before the rendered closing marker
C5_RoundTripTrimmed ==
  (pdone /\ pentries # <<>> /\ RoundTripPreTrimmed(pentries))
    => pfiles = MappingOf(pentries)

\* C5 witness: two files, one in a subfolder and one of several lines, were
\* rendered, parsed and recovered
C5_Witness ==
  /\ pdone
  /\ Len(pentries) = 2
  /\ RoundTripPreTrimmed(pentries)
  /\ pentries[2] = <<<<"s","/","b">>, <<"x","\n","y">>>>
  /\ pfiles = MappingOf(pentries)

--------------------------------------------------------------------------
(* Claims about the generation request (under Spec)                        *)

\* what the template generator returns for the settings of the last run
TemplateOfLast == mock_generator_from_settings(last.settings, last.framework)

\* the last run wrote the template generator's files and archived them
TemplateMaterialized ==
  /\ last.result = "written"
  /\ last.files = TemplateOfLast
  /\ last.written = WrittenPaths(TemplateOfLast)
  /\ last.archive

\* C1 as stated: a generation request in which remote generation is requested,
\* a credential is present and the remote completion call raises still ends
\* with the template generator's files materialized, never with no output
C1_RemoteFailureFallsBack ==
  (last.generated /\ last.use_llm /\ last.env.hasKey /\ last.remote = "raised")
    => TemplateMaterialized

\* C2 as stated: when the remote call returns a text from which the parser
\* extracts nothing, the request ends with the template generator's files for
\* the same settings, not with an error
C2_EmptyParseFallsBack ==
  (last.generated /\ last.remote = "answered"
     /\ safe_extract_code_blocks(last.text) = EmptyDict)
    => TemplateMaterialized

\* C3 as stated: the completion service is called iff remote generation is
\* requested, a credential is present and the import of completion succeeded;
\* in every other case no call is made and the request produces the template
\* generator's files
C3_RemoteIffAllThree ==
  last.generated =>
    LET all == last.use_llm /\ last.env.hasKey /\ last.env.LITELLM_AVAILABLE
    IN /\ last.called <=> all
       /\ ~all => (last.source = "template" /\ TemplateMaterialized)

\* path p lies inside the project folder
InsideProject(p) ==
  /\ Len(p) > Len(ProjectFolder)
  /\ SubSeq(p, 1, Len(ProjectFolder)) = ProjectFolder

\* C6 as stated: every file written lies inside the project folder, also when
\* the mapping comes from remote text whose filenames are taken verbatim
C6_WritesStayInside == \A p \in last.written : InsideProject(p)

\* the number of entries of pages equal to name
Count(pages, name) == Cardinality({i \in 1..Len(pages) : pages[i] = name})

\* the page names the user types in this model
TypedNames ==
  UNION {{SplitPages(t, 1)[i] : i \in 1..Len(SplitPages(t, 1))} : t \in TypedTexts}

\* the entries of pages equal to name are one if the toggle is on and none if
\* it is off, for a name the user did not type
OneIffOn(pages, toggle, name) ==
  name \notin TypedNames => Count(pages, name) = (IF toggle THEN 1 ELSE 0)

\* C7 as stated: after any sequence of script runs the pages list used for
\* generation holds exactly one Login entry iff login is on, exactly one Contact
\* entry iff contact is on and exactly one About entry iff about is on, apart
\* from entries the user typed
C7_OneEntryIffToggleOn ==
  last.generated =>
    /\ OneIffOn(last.settings.pages, last.settings.login, LoginName)
    /\ OneIffOn(last.settings.pages, last.settings.contact, ContactName)
    /\ OneIffOn(last.settings.pages, last.settings.about, AboutName)

\* C8 as stated: the generation sequence runs only in the run that a click on
\* Generate site now caused; no later run generates again without a new click
C8_GeneratesOncePerClick == last.generated => last.clicked

--------------------------------------------------------------------------
(* Claims about the template generator (under SpecGenerator)               *)

\* the generator returned for the React branch
ReactReturned == gstate = "returned" /\ IsReact(gframework)

\* C9 as stated: in the React branch, with contact on, also when pages already
\* holds Contact, src/pages/Contact.jsx is the three-field form; and the form
\* is produced only if contact is on
C9_ContactIsTheForm ==
  ReactReturned =>
    /\ gsettings.contact =>
         /\ PageFile(ContactName) \in DOMAIN gfiles
         /\ gfiles[PageFile(ContactName)] = ContactForm
    /\ (\E k \in DOMAIN gfiles : gfiles[k] = ContactForm) => gsettings.contact

\* the files of the result whose path is that of the page module of comp
ModulesNamed(files, comp) == {k \in DOMAIN files : k = PageFile(comp)}

\* C10: for all settings with login, contact and about on in the React branch,
\* the mapping mock_generator_from_settings returns holds the page modules
\* Login, Contact and About exactly once each, whether or not pages already
\* holds those names
C10_ExtraPagesOnce ==
  (ReactReturned /\ gsettings.login /\ gsettings.contact /\ gsettings.about)
    => \A comp \in {LoginName, ContactName, AboutName} :
         Cardinality(ModulesNamed(gfiles, comp)) = 1

\* C10 witness: the generator returned for pages that hold Login but not About
\* or Contact, with the three toggles on
C10_Witness ==
  /\ ReactReturned
  /\ gsettings.login /\ gsettings.contact /\ gsettings.about
  /\ InList(LoginName, gsettings.pages)
  /\ ~InList(AboutName, gsettings.pages)
  /\ ~InList(ContactName, gsettings.pages)
  /\ PageFile(AboutName) \in DOMAIN gfiles

\* the files of the result under src/pages/
PageModuleKeys(files) ==
  {k \in DOMAIN files : StartsWith(k, <<"s","r","c","/","p","a","g","e","s","/">>)}

\* the entries of pages are pairwise distinct strings
DistinctPages(pages) ==
  \A i, j \in 1..Len(pages) : pages[i] = pages[j] => i = j

\* how many of Login, Contact and About the toggles add to pages
AutoAdded(settings) ==
  Cardinality({n \in {LoginName, ContactName, AboutName} :
                 /\ ~InList(n, settings.pages)
                 /\ \/ n = LoginName /\ settings.login
                    \/ n = ContactName /\ settings.contact
                    \/ n = AboutName /\ settings.about})

\* entry p of pages has its own module: named by its component identifier,
\* rendering p as heading
OwnModule(files, p) ==
  /\ PageFile(CompName(p)) \in DOMAIN files
  /\ files[PageFile(CompName(p))].kind = "page"
  /\ files[PageFile(CompName(p))].heading = p

\* C11 as stated: in the React branch, for pages of distinct names, the result
\* holds one page module per entry of pages, so that the number of files under
\* src/pages/ is the number of entries plus the auto-added Login, Contact and
\* About, each entry's module being named by its component identifier and
\* rendering the entry's own name as heading
C11_OneModulePerPage ==
  (ReactReturned /\ DistinctPages(gsettings.pages)) =>
    /\ Cardinality(PageModuleKeys(gfiles))
         = Len(gsettings.pages) + AutoAdded(gsettings)
    /\ \A i \in 1..Len(gsettings.pages) : OwnModule(gfiles, gsettings.pages[i])

\* the generator returned for the static branch
StaticReturned == gstate = "returned" /\ ~IsReact(gframework)

StylesCss == <<"s","t","y","l","e","s",".","c","s","s">>

\* C12: for all settings with a non-empty pages list, the static branch of
\* mock_generator_from_settings returns exactly two files, index.html and
\* styles.css, and index.html holds exactly one section per entry of pages, in
\* the order of the list
C12_StaticTwoFiles ==
  (StaticReturned /\ gsettings.pages # <<>>) =>
    /\ DOMAIN gfiles = {IndexHtml, StylesCss}
    /\ Len(gfiles[IndexHtml].sections) = Len(gsettings.pages)
    /\ \A i \in 1..Len(gsettings.pages) :
         /\ gfiles[IndexHtml].sections[i].heading = gsettings.pages[i]
         /\ gfiles[IndexHtml].sections[i].sentence = gsettings.pages[i]

\* C12 witness: the static branch returned for a list of two entries of the
\* same name, with a section for each
C12_Witness ==
  /\ StaticReturned
  /\ gsettings.pages = <<HomeName, HomeName>>
  /\ Len(gfiles[IndexHtml].sections) = 2

--------------------------------------------------------------------------
(* Claims about the questionnaire and the script runs (under Spec)         *)

\* C13 as stated: after any sequence of questionnaire steps and inputs, also an
\* empty or repeated page list typed at the pages step, the settings handed to
\* the generator have a pages list of at least one entry whose entries are
\* pairwise distinct
C13_PagesDistinctNonEmpty ==
  last.generated =>
    /\ Len(last.settings.pages) >= 1
    /\ DistinctPages(last.settings.pages)

\* C14: whenever the chosen generation path yields an empty file mapping, the
\* request ends in the error "No files were generated.", no file is written
\* and no archive is produced
C14_EmptyMappingIsAnError ==
  (last.generated /\ last.result # "error" /\ last.files = EmptyDict) =>
    /\ last.result = "no files"
    /\ last.written = {}
    /\ ~last.archive

\* C14 witness: the completion service answered a text the parser extracts
\* nothing from, and the run ended in the error with nothing written
C14_Witness ==
  /\ last.generated
  /\ last.remote = "answered"
  /\ last.files = EmptyDict
  /\ last.result = "no files"
  /\ last.written = {}

--------------------------------------------------------------------------
(* Claims about repeated calls of the template generator (SpecGenerator)   *)

\* a step in which a call of the generator returns
CallReturns == gcalls' = gcalls + 1

AppOf(files) == files[<<"s","r","c","/","A","p","p",".","j","s","x">>]

\* the path rule: / for home, otherwise / and the lower-cased name with its
\* whitespace replaced by hyphens
PathRule(p) ==
  IF Lower(p) = <<"h","o","m","e">> THEN <<"/">>
  ELSE <<"/">> \o [i \in 1..Len(p) |-> IF IsSpace(p[i]) THEN "-" ELSE LowerChar(p[i])]

\* C16 as stated: in the React branch with the sidebar on, for every page of
\* pages the sidebar link target in src/App.jsx equals the route path declared
\* for that page, both following the path rule, so that every sidebar link
\* resolves to a declared route
C16_SidebarLinksAreRoutes ==
  (ReactReturned /\ gsettings.sidebar) =>
    \A i \in 1..Len(gsettings.pages) :
      /\ AppOf(gfiles).routes[i].path = PathRule(gsettings.pages[i])
      /\ AppOf(gfiles).sidebar.links[i].to = AppOf(gfiles).routes[i].path
      /\ \E r \in 1..Len(AppOf(gfiles).routes) :
           AppOf(gfiles).routes[r].path = AppOf(gfiles).sidebar.links[i].to

\* the step and the panel of a state of the questionnaire
StepInRange ==
  /\ qa_step \in 0..7
  /\ qa_step = 7 => qa_advanced
  /\ Panel(qa_step, qa_advanced) # "none"
  /\ started => buttons # {}

\* a run sets the trigger only from the final confirmation panel
TriggerFromConfirm ==
  (generate_trigger' /\ ~generate_trigger)
    => Panel(qa_step, qa_advanced) = "confirm"

\* C17: after any sequence of Next, Back, Continue and Finish clicks and changes
\* of the advanced choice, qa_step stays within 0..7 and never goes below 0,
\* qa_step = 7 is reached only with qa_advanced, in every reachable state one
\* branch of the step chain matches and renders its panel, and the trigger is
\* set only in the final confirmation state (step 6 without qa_advanced, step 7
\* with it)
C17_StepMachine == []StepInRange /\ [][TriggerFromConfirm]_vars

\* C17 witness: the trigger was set at step 7 of the advanced path
C17_Witness ==
  /\ qa_step = 7
  /\ qa_advanced
  /\ generate_trigger
  /\ last.clicked

\* no entry of the sequence occurs twice
NoDuplicates(seq) == \A i, j \in 1..Len(seq) : seq[i] = seq[j] => i = j

\* the route paths src/App.jsx declares, in order
RoutePathsOf(app) == [i \in 1..Len(app.routes) |-> app.routes[i].path]

\* C18 as stated: in the React branch, for all settings whose pages are
\* distinct strings and every combination of the login, contact and about
\* toggles, src/App.jsx imports each component identifier at most once and
\* declares each route path at most once
C18_ImportsAndRoutesOnce ==
  (ReactReturned /\ DistinctPages(gsettings.pages)) =>
    /\ NoDuplicates(AppOf(gfiles).imports)
    /\ NoDuplicates(RoutePathsOf(AppOf(gfiles)))

\* the answers of a run that the main area assigns
MainAreaKeys == {"login", "contact", "about"}

\* C19: on every script run the login, contact and about values kept in the
\* session answers, and copied into Settings when the run generates, equal the
\* values the three main-area checkboxes returned in that run; what the radios
\* of the advanced step answered is overwritten before Settings is built
C19_CheckboxesDecide ==
  started =>
    /\ \A c \in MainAreaKeys :
         c \in DOMAIN qa_answers /\ qa_answers[c] = checkbox[c]
    /\ last.generated =>
         /\ last.settings.login = checkbox["login"]
         /\ last.settings.contact = checkbox["contact"]
         /\ last.settings.about = checkbox["about"]

\* C19 witness: a run that generated rendered the advanced step, where the Login
\* radio answered otherwise than the Login checkbox, and Settings holds the
\* checkbox's value
C19_Witness ==
  /\ last.generated
  /\ featWidget["login"].shown
  /\ featWidget["login"].value # checkbox["login"]
  /\ last.settings.login = checkbox["login"]

====
